---- MODULE Spec2Model ----
(***************************************************************************)
(* Model of src/app.py: a Streamlit customer-support chat page.            *)
(*                                                                         *)
(* Streamlit re-executes the script from the top on every widget event.    *)
(* The variables below are the keys of st.session_state (which survive a   *)
(* rerun), the credential sources, and the script's locals during the run  *)
(* that handles a chat submission (which do not survive a rerun).  One     *)
(* script run is single-threaded; the retry loop of lines 160-189 is       *)
(* modelled one iteration per step so that attempts and delays are         *)
(* visible.                                                                *)
(*                                                                         *)
(* Abstractions: uuid4 values are modelled by their issue number (two      *)
(* uuid4 values never collide); time.time() readings stored in the         *)
(* "timestamp" field of a history entry are not modelled (nothing in the   *)
(* script reads them back except the export, which copies them); texts are *)
(* short ASCII stand-ins for the literals of the source.                   *)
(***************************************************************************)
EXTENDS Integers, Sequences, FiniteSets, TLC

\* ---------------------------------------------------------------- bounds

\* Largest length of st.session_state.messages a submission may lead to.
MaxMessages == 9

\* Number of uuid4 values issued in one behaviour (first run plus resets).
MaxSessions == 2

\* ------------------------------------------------------ program constants

\* app.py:158  max_retries = 3
max_retries == 3

\* app.py:148  if len(st.session_state.messages) > 7
PayloadLimit == 7

\* app.py:150  st.session_state.messages[-6:]
RecentTurns == 6

\* app.py:174, 177  e.status_code == 429
RATE_LIMIT_STATUS == 429

\* app.py:176  time.sleep(1 * (attempt + 1))
BaseDelay == 1

\* app.py:99  available_models
available_models == <<"gemini-2.5-flash", "gemini-2.5-pro">>

\* app.py:52  default of st.session_state.model_name
DefaultModel == "gemini-2.5-flash"

\* app.py:30-37  SYSTEM_PROMPT (stand-in for the literal)
SYSTEM_PROMPT == "SYSTEM_PROMPT"

\* app.py:179  response_text when the rate limit is exhausted
OverloadFallback == "overload: service is busy, try again later"

\* app.py:183  response_text on any other APIError
GenericFallback == "sorry: error while processing, try again later"

\* app.py:188  response_text on any other Exception
UnexpectedFallback == "sorry: unexpected problem, cannot answer"

\* Inputs: what the user types into st.chat_input.
UserTexts == {"u1"}

\* Inputs: response.text of a successful call (possibly empty).
ReplyTexts == {"", "r1"}

\* Inputs: status codes an APIError can carry (429 and one other).
StatusCodes == {429, 500}

\* Inputs: the API key a source can supply ("" is absent).
ApiKeys == {"", "key"}

VARIABLES
    session_id,     \* st.session_state.session_id (issue number of the uuid4)
    messages,       \* st.session_state.messages
    history,        \* st.session_state.history
    model_name,     \* st.session_state.model_name
    log_to_csv,     \* st.session_state.log_to_csv
    uuids,          \* how many uuid4 values have been issued so far
    secret_key,     \* st.secrets["GEMINI_API_KEY"] ("" when not configured)
    typed_key,      \* value of the sidebar st.text_input
    pc,             \* position of the current script run
    client,         \* whether the name `client` is bound in this run
    prompt,         \* local `prompt`
    api_messages,   \* local `api_messages`
    response_text,  \* local `response_text`
    attempt,        \* loop variable `attempt`
    outcomes,       \* what each loop iteration's call ended with, in order
    delays,         \* the arguments of time.sleep in this run, in order
    len_before      \* lengths of messages, history when the submission arrived

session == <<session_id, messages, history, model_name, log_to_csv, uuids>>
creds == <<secret_key, typed_key>>
locals == <<client, prompt, api_messages, response_text, attempt, outcomes,
            delays, len_before>>
vars == <<session, creds, pc, locals>>

\* ---------------------------------------------------------------- helpers

\* types.Content(role=..., parts=[types.Part.from_text(text)])
Content(role, text) == [role |-> role, text |-> text]

\* A history entry; `sid` is auxiliary: the session_id in force when the
\* entry was appended (the source stores timestamp, role, text).
Entry(role, text, sid) == [role |-> role, text |-> text, sid |-> sid]

\* Variant of AppendTurn: the stored list is trimmed to the request window
\* (the first entry and the six most recent) on every append.
AppendTurnTrimmed(seq, x) ==
    IF Len(seq) + 1 > PayloadLimit
    THEN <<seq[1]>> \o SubSeq(Append(seq, x), Len(seq) - RecentTurns + 2,
                              Len(seq) + 1)
    ELSE Append(seq, x)

\* list.append
AppendTurn(seq, x) == Append(seq, x)

\* app.py:13-27  get_api_key
API_KEY == IF secret_key # "" THEN secret_key ELSE typed_key

\* Variant of ApiMessages: messages[-7:] alone, without re-attaching
\* messages[0].
ApiMessagesTailOnly(msgs) ==
    IF Len(msgs) > PayloadLimit
    THEN SubSeq(msgs, Len(msgs) - RecentTurns, Len(msgs))
    ELSE msgs

\* app.py:145-152  api_messages
ApiMessages(msgs) ==
    IF Len(msgs) > PayloadLimit
    THEN <<msgs[1]>> \o SubSeq(msgs, Len(msgs) - RecentTurns + 1, Len(msgs))
    ELSE msgs

\* The locals of a script run that has not reached the chat handling.
NoLocals ==
    /\ client = FALSE
    /\ prompt = ""
    /\ api_messages = <<>>
    /\ response_text = ""
    /\ attempt = 0
    /\ outcomes = <<>>
    /\ delays = <<>>
    /\ len_before = <<0, 0>>

ClearLocals ==
    /\ client' = FALSE
    /\ prompt' = ""
    /\ api_messages' = <<>>
    /\ response_text' = ""
    /\ attempt' = 0
    /\ outcomes' = <<>>
    /\ delays' = <<>>
    /\ len_before' = <<0, 0>>

\* ------------------------------------------------------------------- Init

\* State after the first script run: initialize_session_state filled
\* every key; no widget has been touched.
Init ==
    /\ session_id = 1
    /\ uuids = 1
    /\ messages = <<Content("system", SYSTEM_PROMPT)>>
    /\ history = <<>>
    /\ model_name = DefaultModel
    /\ log_to_csv = FALSE
    /\ secret_key \in ApiKeys
    /\ typed_key = ""
    /\ pc = "idle"
    /\ NoLocals

\* app.py:71-77  the rows convert_history_to_csv writes, one per entry, each
\* stamped with the current session_id (the Timestamp column and the CSV
\* encoding of lines 66-69, 78 are not modelled).
ExportRows(h) ==
    [i \in DOMAIN h |->
        [SessionID |-> session_id, Role |-> h[i].role, Text |-> h[i].text]]

\* ---------------------------------------------------------------- actions

\* app.py:100-104  the model selectbox: the user picks an entry.
SelectModel(m) ==
    /\ pc = "idle"
    /\ model_name' = m
    /\ UNCHANGED <<session_id, messages, history, log_to_csv, uuids>>
    /\ UNCHANGED <<creds, pc, locals>>

\* app.py:107  the logging checkbox: the user flips it.
ToggleLog ==
    /\ pc = "idle"
    /\ log_to_csv' = ~log_to_csv
    /\ UNCHANGED <<session_id, messages, history, model_name, uuids>>
    /\ UNCHANGED <<creds, pc, locals>>

\* app.py:24-27  the sidebar text_input, shown only when the secret is absent.
TypeApiKey(k) ==
    /\ pc = "idle"
    /\ secret_key = ""
    /\ typed_key' = k
    /\ UNCHANGED <<session, secret_key, pc, locals>>

\* Variant of keys_to_reset: "history" forgotten.
keys_to_reset_without_history == {"messages", "session_id"}

\* Variant of keys_to_reset: "model_name" reset as well.
keys_to_reset_with_model == {"messages", "history", "session_id", "model_name"}

\* app.py:58  keys_to_reset
keys_to_reset == {"messages", "history", "session_id"}

\* app.py:110-112 with 57-62 and 40-54: the reset button.  reset_conversation
\* deletes the keys of keys_to_reset; initialize_session_state then gives
\* every absent key its default and leaves every present key alone.
\* st.experimental_rerun (line 112) is pending afterwards.
Reset ==
    /\ pc = "idle"
    /\ uuids < MaxSessions
    /\ uuids' = IF "session_id" \in keys_to_reset THEN uuids + 1 ELSE uuids
    /\ session_id' = IF "session_id" \in keys_to_reset
                     THEN uuids + 1 ELSE session_id
    /\ messages' = IF "messages" \in keys_to_reset
                   THEN <<Content("system", SYSTEM_PROMPT)>> ELSE messages
    /\ history' = IF "history" \in keys_to_reset THEN <<>> ELSE history
    /\ model_name' = IF "model_name" \in keys_to_reset
                     THEN DefaultModel ELSE model_name
    /\ log_to_csv' = IF "log_to_csv" \in keys_to_reset
                     THEN FALSE ELSE log_to_csv
    /\ pc' = "reset_rerun"
    /\ UNCHANGED <<creds, locals>>

\* app.py:118-125  a key is present and genai.Client raises: st.error,
\* st.stop().  The run ends before st.chat_input is reached; the submitted
\* text is dropped and nothing is stored.
SubmitStopped ==
    /\ pc = "idle"
    /\ API_KEY # ""
    /\ UNCHANGED vars

\* app.py:118-152  a chat submission in a run that reaches line 134: either
\* the key is absent (st.error only, `client` stays unbound) or the client
\* was constructed.  The user turn is stored and the payload is built.
Submit(text) ==
    /\ pc = "idle"
    /\ Len(messages) + 2 <= MaxMessages
    /\ client' = (API_KEY # "")
    /\ prompt' = text
    /\ len_before' = <<Len(messages), Len(history)>>
    /\ history' = AppendTurn(history, Entry("user", text, session_id))
    /\ messages' = AppendTurn(messages, Content("user", text))
    /\ api_messages' = ApiMessages(messages')
    /\ response_text' = ""
    /\ attempt' = 0
    /\ outcomes' = <<>>
    /\ delays' = <<>>
    /\ pc' = "attempting"
    /\ UNCHANGED <<session_id, model_name, log_to_csv, uuids, creds>>

\* app.py:160  the loop head: range(max_retries) has another value.
InLoop == pc = "attempting" /\ attempt < max_retries

\* Where control goes when an iteration ends without break.
NextIteration(a) == IF a + 1 < max_retries THEN "attempting" ELSE "record"

\* app.py:162 with 186-189: `client` is unbound, evaluating
\* client.models raises NameError, which `except Exception` catches.
\* No request is sent.
NameErrorRaised ==
    /\ InLoop
    /\ ~client
    /\ outcomes' = Append(outcomes, "name_error")
    /\ response_text' = UnexpectedFallback
    /\ pc' = "record"
    /\ UNCHANGED <<session, creds, client, prompt, api_messages, attempt,
                   delays, len_before>>

\* app.py:162-170  generate_content returns; break.
CallSucceeds(text) ==
    /\ InLoop
    /\ client
    /\ outcomes' = Append(outcomes, "ok")
    /\ response_text' = text
    /\ pc' = "record"
    /\ UNCHANGED <<session, creds, client, prompt, api_messages, attempt,
                   delays, len_before>>

\* Variant of ShouldRetry: off by one, attempt < max_retries.
ShouldRetryOneMore(status_code, a) ==
    status_code = RATE_LIMIT_STATUS /\ a < max_retries

\* Variant of ShouldRetry: every APIError is retried, whatever its status.
ShouldRetryAnyStatus(status_code, a) == a < max_retries - 1

\* app.py:174  e.status_code == 429 and attempt < max_retries - 1
ShouldRetry(status_code, a) ==
    status_code = RATE_LIMIT_STATUS /\ a < max_retries - 1

\* Variant of SleepSeconds: a constant delay.
SleepSecondsConstant(a) == BaseDelay

\* app.py:176  time.sleep(1 * (attempt + 1))
SleepSeconds(a) == BaseDelay * (a + 1)

\* app.py:172-184  generate_content raises APIError.
CallRaisesAPIError(status_code) ==
    /\ InLoop
    /\ client
    /\ outcomes' = Append(outcomes, IF status_code = RATE_LIMIT_STATUS
                                    THEN "rate_limited" ELSE "api_error")
    /\ IF ShouldRetry(status_code, attempt)
       THEN /\ delays' = Append(delays, SleepSeconds(attempt))
            /\ attempt' = attempt + 1
            /\ pc' = NextIteration(attempt)
            /\ UNCHANGED response_text
       ELSE /\ response_text' = IF status_code = RATE_LIMIT_STATUS
                                THEN OverloadFallback ELSE GenericFallback
            /\ pc' = "record"
            /\ UNCHANGED <<attempt, delays>>
    /\ UNCHANGED <<session, creds, client, prompt, api_messages, len_before>>

\* app.py:186-189  generate_content raises another Exception.
CallRaisesException ==
    /\ InLoop
    /\ client
    /\ outcomes' = Append(outcomes, "exception")
    /\ response_text' = UnexpectedFallback
    /\ pc' = "record"
    /\ UNCHANGED <<session, creds, client, prompt, api_messages, attempt,
                   delays, len_before>>

\* Variant of ShouldRecord: the reply is stored unconditionally.
ShouldRecordAlways(text) == TRUE

\* Variant of ShouldRecord: the reply is stored only when logging is on.
ShouldRecordIfLogging(text) == text # "" /\ log_to_csv

\* app.py:195  if response_text:
ShouldRecord(text) == text # ""

\* app.py:191-205  after the loop: the reply is stored when it is not
\* empty; the log_to_csv branch (201-202) only shows a toast;
\* st.experimental_rerun (line 205) is pending afterwards.
RecordReply ==
    /\ pc = "record"
    /\ IF ShouldRecord(response_text)
       THEN /\ history' = AppendTurn(history,
                              Entry("model", response_text, session_id))
            /\ messages' = AppendTurn(messages,
                              Content("model", response_text))
       ELSE UNCHANGED <<messages, history>>
    /\ pc' = "reply_rerun"
    /\ UNCHANGED <<session_id, model_name, log_to_csv, uuids, creds, locals>>

\* app.py:112, 205  st.experimental_rerun: the script starts over; the
\* locals of the run are gone, st.session_state is kept (lines 41-54 find
\* every key present, the widgets return their current values).
Rerun ==
    /\ pc \in {"reset_rerun", "reply_rerun"}
    /\ pc' = "idle"
    /\ ClearLocals
    /\ UNCHANGED <<session, creds>>

Next ==
    \/ \E m \in {available_models[i] : i \in DOMAIN available_models} :
          SelectModel(m)
    \/ ToggleLog
    \/ \E k \in ApiKeys : TypeApiKey(k)
    \/ Reset
    \/ SubmitStopped
    \/ \E text \in UserTexts : Submit(text)
    \/ NameErrorRaised
    \/ \E text \in ReplyTexts : CallSucceeds(text)
    \/ \E status_code \in StatusCodes : CallRaisesAPIError(status_code)
    \/ CallRaisesException
    \/ RecordReply
    \/ Rerun

Spec == Init /\ [][Next]_vars

\* ----------------------------------------------------------------- claims

IsPrefix(s, t) == Len(s) <= Len(t) /\ SubSeq(t, 1, Len(s)) = s

Last(s) == s[Len(s)]

\* A request is being served: the payload has been built and the stored
\* lists still hold exactly what it was built from.
Serving == pc \in {"attempting", "record"}

\* The run has left the retry loop.
Resolved == pc \in {"record", "reply_rerun"}

\* The step that performs reset_conversation.
ResetStep == pc = "idle" /\ pc' = "reset_rerun"

\* C1: while a request is served, the payload is the instruction followed
\* by the last min(n, 6) stored turns in their stored order, n being the
\* number of stored turns without the instruction entry; it never has more
\* than 7 entries and its first entry is always the instruction.
C1_PayloadIsInstructionPlusRecentTurns ==
    Serving =>
        LET n == Len(messages) - 1
            k == IF n <= 6 THEN n ELSE 6
        IN  /\ Len(api_messages) = 1 + k
            /\ Len(api_messages) <= 7
            /\ api_messages[1] = Content("system", SYSTEM_PROMPT)
            /\ \A i \in 1..k :
                  api_messages[1 + i] = messages[Len(messages) - k + i]

\* C1 witness: a payload built from more than 6 stored turns.
C1_Witness ==
    /\ pc = "attempting"
    /\ Len(messages) - 1 > 6
    /\ Len(api_messages) = 7

\* C2: every delay follows a rate-limit signal at an attempt k < 3 and
\* lasts k units; while the loop runs each attempt so far was rate limited
\* and delayed; no delay follows a successful attempt; and rate limits on
\* attempts 1 and 2 followed by success on attempt 3 give exactly 3
\* attempts, the delays 1 and 2, and the text the service returned.
C2_RetryWithIncreasingDelay ==
    /\ \A k \in 1..Len(delays) :
          /\ k < 3
          /\ delays[k] = k * 1
          /\ k <= Len(outcomes)
          /\ outcomes[k] = "rate_limited"
    /\ pc = "attempting" =>
          /\ Len(delays) = Len(outcomes)
          /\ attempt = Len(outcomes)
    /\ (outcomes # <<>> /\ Last(outcomes) = "ok") =>
          Len(delays) = Len(outcomes) - 1
    /\ (Len(outcomes) >= 3 /\ SubSeq(outcomes, 1, 3) =
            <<"rate_limited", "rate_limited", "ok">>) =>
          /\ Resolved
          /\ Len(outcomes) = 3
          /\ delays = <<1, 2>>
          /\ response_text \in ReplyTexts

\* C2 witness: two rate limits, then a successful third attempt.
C2_Witness ==
    /\ outcomes = <<"rate_limited", "rate_limited", "ok">>
    /\ response_text = "r1"
    /\ pc = "record"

\* C3: no request makes a fourth attempt; after rate limits on all 3
\* attempts the loop is over with exactly the 2 delays that preceded
\* attempts 2 and 3 (none after the last), the reply is the overload
\* fallback, and the run goes on to store it like a model turn.
C3_RateLimitExhaustion ==
    /\ Len(outcomes) <= 3
    /\ (Len(outcomes) >= 3 /\ \A k \in 1..3 : outcomes[k] = "rate_limited") =>
          /\ Resolved
          /\ delays = <<1, 2>>
          /\ response_text = OverloadFallback
          /\ pc = "reply_rerun" =>
                /\ Last(history).role = "model"
                /\ Last(history).text = OverloadFallback

\* C3 witness: three rate-limited attempts, fallback stored.
C3_Witness ==
    /\ outcomes = <<"rate_limited", "rate_limited", "rate_limited">>
    /\ pc = "reply_rerun"
    /\ Last(history).text = OverloadFallback

\* C4: an APIError that is not a rate limit, or any other exception, at
\* whatever attempt it occurs, is the last attempt of the request and is
\* followed by no delay; the reply is then the generic fallback, resp. the
\* unexpected-error fallback, and the three fallback texts are pairwise
\* distinct.
C4_NonRetryableErrorEndsRequest ==
    /\ \A k \in 1..Len(outcomes) :
          outcomes[k] \in {"api_error", "exception"} =>
              /\ k = Len(outcomes)
              /\ Resolved
              /\ Len(delays) = k - 1
              /\ outcomes[k] = "api_error" => response_text = GenericFallback
              /\ outcomes[k] = "exception" =>
                    response_text = UnexpectedFallback
    /\ OverloadFallback # GenericFallback
    /\ OverloadFallback # UnexpectedFallback
    /\ GenericFallback # UnexpectedFallback

\* C4 witness: a service error on the attempt that follows a rate limit.
C4_Witness ==
    /\ outcomes = <<"rate_limited", "api_error">>
    /\ pc = "record"
    /\ response_text = GenericFallback

\* The stored lists grew by exactly `d` entries since the submission.
GrewBy(d) ==
    /\ Len(messages) = len_before[1] + d
    /\ Len(history) = len_before[2] + d

\* The entry stored first after the submission is the user turn.
UserTurnStored ==
    /\ Len(messages) > len_before[1]
    /\ Len(history) > len_before[2]
    /\ messages[len_before[1] + 1] = Content("user", prompt)
    /\ history[len_before[2] + 1].role = "user"
    /\ history[len_before[2] + 1].text = prompt

\* The entry stored second after the submission is a model turn carrying
\* response_text.
ModelTurnStored ==
    /\ messages[len_before[1] + 2] = Content("model", response_text)
    /\ history[len_before[2] + 2].role = "model"
    /\ history[len_before[2] + 2].text = response_text

\* C5 as stated: once a submission has resolved (the reply handling is
\* over), the stored conversation and the transcript have each grown by
\* exactly two entries, the user turn and one model turn carrying the reply
\* or fallback text, whatever the service answered, an empty text included.
C5_AsStated ==
    pc = "reply_rerun" => (GrewBy(2) /\ UserTurnStored /\ ModelTurnStored)

\* C5 amended: a submission that reaches the chat handling makes at most 3
\* attempts and the loop never stands still with attempts left unused;
\* every failure resolves to one of the three non-empty fallback texts; and
\* once it has resolved the stored conversation and the transcript have
\* each grown by the user turn followed by one model turn carrying the
\* text, except that a successful call with an empty text stores the user
\* turn alone.
C5_ResolvesToStoredTurns ==
    /\ Len(outcomes) <= 3
    /\ pc = "attempting" => attempt < 3
    /\ Resolved =>
          /\ outcomes # <<>>
          /\ Last(outcomes) = "ok" => response_text \in ReplyTexts
          /\ Last(outcomes) # "ok" =>
                /\ response_text \in
                      {OverloadFallback, GenericFallback, UnexpectedFallback}
                /\ response_text # ""
    /\ pc = "reply_rerun" =>
          /\ UserTurnStored
          /\ IF response_text # ""
             THEN GrewBy(2) /\ ModelTurnStored
             ELSE GrewBy(1) /\ Last(outcomes) = "ok"

\* C5 witness: a submission resolved by a successful call that returned an
\* empty text.
C5_Witness ==
    /\ pc = "reply_rerun"
    /\ Last(outcomes) = "ok"
    /\ response_text = ""
    /\ GrewBy(1)

\* Every transcript entry was created under the current session id, which
\* is the id the export stamps on its row.
EntriesOfCurrentSession ==
    /\ \A i \in DOMAIN history : history[i].sid = session_id
    /\ DOMAIN ExportRows(history) = DOMAIN history
    /\ \A i \in DOMAIN history :
          ExportRows(history)[i].SessionID = history[i].sid

\* C6: a reset step yields a session id different from the one before it,
\* an empty transcript and a stored conversation of the instruction alone,
\* all in that one step; and in every state every transcript entry was
\* created under the current session id, the id export stamps on its row.
C6_ResetStartsFreshSession ==
    /\ [][ResetStep =>
            /\ session_id' # session_id
            /\ Len(history') = 0
            /\ messages' = <<Content("system", SYSTEM_PROMPT)>>]_vars
    /\ [](pc = "reset_rerun" =>
            /\ history = <<>>
            /\ messages = <<Content("system", SYSTEM_PROMPT)>>)
    /\ []EntriesOfCurrentSession

\* C6 witness: a reset has just been performed.
C6_Witness ==
    /\ pc = "reset_rerun"
    /\ session_id = 2
    /\ history = <<>>

\* C7 as stated: immediately after a reset the model name is the default.
C7_AsStated == pc = "reset_rerun" => model_name = "gemini-2.5-flash"

\* C7 amended: a reset leaves model_name as it was: the model selected
\* before the reset is still selected after it, and stays selected through
\* the rerun that follows.
C7_ResetKeepsModelName ==
    [][(ResetStep \/ pc = "reset_rerun") => model_name' = model_name]_vars

\* C7 witness: a reset has just been performed and the selected model is
\* not the default.
C7_Witness ==
    /\ pc = "reset_rerun"
    /\ model_name = "gemini-2.5-pro"

\* C8 as stated: a submission handled without a credential (no client was
\* constructed) creates no turn: the stored conversation and the
\* transcript are as they were when the submission arrived.
C8_AsStated ==
    (pc \in {"attempting", "record", "reply_rerun"} /\ ~client) => GrewBy(0)

\* C9 as stated: once a submission has resolved the transcript holds the
\* user turn, and the model turn only if logging was enabled when the
\* reply was produced (stated for runs that have a client, so that the
\* missing-credential path plays no part).
C9_AsStated ==
    (pc = "reply_rerun" /\ client) =>
        Len(history) = len_before[2] + 1 +
            (IF log_to_csv /\ response_text # "" THEN 1 ELSE 0)

\* C9 amended: the transcript mirrors the stored conversation in every
\* state, record for record; once a submission has resolved it holds the
\* user turn and, whenever the reply or fallback text is not empty, the
\* model turn, whether logging is enabled or not.
C9_TranscriptRecordsEveryTurn ==
    /\ Len(history) = Len(messages) - 1
    /\ \A i \in DOMAIN history :
          /\ history[i].role = messages[i + 1].role
          /\ history[i].text = messages[i + 1].text
    /\ pc = "reply_rerun" =>
          Len(history) = len_before[2] + 1 +
              (IF response_text # "" THEN 1 ELSE 0)

\* C9 witness: a reply produced and recorded with logging disabled.
C9_Witness ==
    /\ pc = "reply_rerun"
    /\ ~log_to_csv
    /\ response_text = "r1"
    /\ Len(history) = len_before[2] + 2
    /\ Last(history).text = "r1"

\* C10: in every step other than a reset the stored conversation and the
\* transcript before the step are prefixes of those after it; the step
\* that builds the payload adds the user turn and nothing else; and the
\* steps of the retry loop leave both unchanged.
C10_StoredTurnsAppendOnly ==
    /\ [][~ResetStep =>
            /\ IsPrefix(messages, messages')
            /\ IsPrefix(history, history')]_vars
    /\ [][(pc = "idle" /\ pc' = "attempting") =>
            /\ Len(messages') = Len(messages) + 1
            /\ Len(history') = Len(history) + 1]_vars
    /\ [][pc = "attempting" => UNCHANGED <<messages, history>>]_vars

\* C10 witness: the retry loop has run to its third attempt on a stored
\* conversation longer than the window, which is still stored whole.
C10_Witness ==
    /\ pc = "record"
    /\ Len(outcomes) = 3
    /\ Len(messages) - 1 > 6
    /\ Len(history) = Len(messages) - 1

====
